---- MODULE Spec2Model ----
(***************************************************************************)
(* A model of hipchat-api: the Api request/response shim (hipchat/api.py), *)
(* the Room, User and Message data objects and their per-entity operations *)
(* (hipchat/rooms.py, hipchat/users.py, hipchat/messages.py,               *)
(* hipchat/data.py).                                                       *)
(*                                                                         *)
(* Python values are tagged records [t |-> type, v |-> payload]: a dict's  *)
(* payload is a function from keys to values, a list's a sequence, an      *)
(* object's a function from attribute names to values.  The remote service *)
(* is the environment: every request is answered by a response drawn from  *)
(* a bounded set of (status code, JSON body) pairs.                        *)
(***************************************************************************)
EXTENDS Integers, Sequences, FiniteSets, TLC

VARIABLES api, room, user, parsedFrom, assigned, last

vars == <<api, room, user, parsedFrom, assigned, last>>

(***************************************************************************)
(* Bounds                                                                  *)
(***************************************************************************)
\* The service knows rooms and users 1..MaxList; a list response holds the
\* first n of them, n in 0..MaxList.
MaxList == 2

(***************************************************************************)
(* Python values                                                           *)
(***************************************************************************)
None == [t |-> "NoneType", v |-> 0]
Str(s) == [t |-> "str", v |-> s]
Num(i) == [t |-> "int", v |-> i]
Bool(b) == [t |-> "bool", v |-> b]
Dict(f) == [t |-> "dict", v |-> f]
List(s) == [t |-> "list", v |-> s]
Date(y, m, d) == [t |-> "date", v |-> [year |-> y, month |-> m, day |-> d]]
DateTime(x) == [t |-> "datetime", v |-> x]
Object(cls, attrs) == [t |-> cls, v |-> attrs]

EmptyDict == <<>>

\* x is None
IsNone(x) == x.t = "NoneType"

\* Python truthiness of the values the code tests with `or` / `if`.
Truthy(x) ==
    CASE x.t = "NoneType" -> FALSE
      [] x.t = "str" -> x.v # ""
      [] x.t = "int" -> x.v # 0
      [] x.t = "bool" -> x.v
      [] x.t = "list" -> Len(x.v) > 0
      [] x.t = "dict" -> DOMAIN x.v # {}
      [] OTHER -> TRUE

\* x or y
Or(x, y) == IF Truthy(x) THEN x ELSE y

\* d.get(k, default)
Get(d, k, default) == IF k \in DOMAIN d.v THEN d.v[k] ELSE default

\* kwargs.update(new): the keys of new win
Update(kwargs, new) == new @@ kwargs

Digit(n) == <<"0", "1", "2", "3", "4", "5", "6", "7", "8", "9">>[n + 1]

RECURSIVE IntToStr(_)
\* '%d' % n and str(n) for n >= 0
IntToStr(n) == IF n < 10 THEN Digit(n) ELSE IntToStr(n \div 10) \o Digit(n % 10)

\* str(x) for the values the code passes to it
PyStr(x) ==
    CASE x.t = "int" -> Str(IntToStr(x.v))
      [] x.t = "str" -> x
      [] OTHER -> Str(x.t)

\* bool(int(x)) for the values the payloads carry
BoolOfInt(x) ==
    CASE x.t = "int" -> Bool(x.v # 0)
      [] x.t = "bool" -> x
      [] x.t = "str" -> Bool(x.v # "0")
      [] OTHER -> Bool(FALSE)

(***************************************************************************)
(* Outcomes of a call: a normal return or a raised exception               *)
(***************************************************************************)
Ok(value) == [exc |-> "none", msg |-> "", ret |-> value]
Raise(type, message) == [exc |-> type, msg |-> message, ret |-> None]
Raised(o) == o.exc # "none"

(***************************************************************************)
(* hipchat/api.py                                                          *)
(***************************************************************************)
\* The status codes with an exception class of their own.
SpecificCodes == {400, 401, 403, 404, 503}

BASE_URL == "https://api.hipchat.com/v1/"
FROM_NAME == "API"

\* Api.__init__
Api_init(auth_token, from_name, base_url) ==
    [auth_token |-> auth_token,
     base_url |-> Or(base_url, Str(BASE_URL)),
     from_name |-> Or(from_name, Str(FROM_NAME))]

\* Api._unwrap_response with the exceptions of 403 and 404 exchanged.
Api_unwrap_response_exchanged(resp) ==
    LET code == resp.status_code
        json == resp.body
        errmsg == Get(Get(json, "error", Dict(EmptyDict)), "message",
                      Str("Unknown error")).v
    IN  CASE code = 200 -> Ok(json)
          [] code = 400 -> Raise("BadRequest", errmsg)
          [] code = 401 -> Raise("AuthorizationError", errmsg)
          [] code = 404 -> Raise("RateLimitExceeded", errmsg)
          [] code = 403 -> Raise("NotFoundError", errmsg)
          [] code = 503 -> Raise("ServiceUnavailable", errmsg)
          [] OTHER -> Raise("HipchatError", IntToStr(code) \o ": " \o errmsg)

\* Api._unwrap_response raising on an 'error' key before it looks at the code.
Api_unwrap_response_error_key(resp) ==
    LET code == resp.status_code
        json == resp.body
        errmsg == Get(Get(json, "error", Dict(EmptyDict)), "message",
                      Str("Unknown error")).v
    IN  CASE "error" \in DOMAIN json.v /\ code \notin SpecificCodes ->
                 Raise("HipchatError", IntToStr(code) \o ": " \o errmsg)
          [] code = 200 -> Ok(json)
          [] code = 400 -> Raise("BadRequest", errmsg)
          [] code = 401 -> Raise("AuthorizationError", errmsg)
          [] code = 404 -> Raise("NotFoundError", errmsg)
          [] code = 403 -> Raise("RateLimitExceeded", errmsg)
          [] code = 503 -> Raise("ServiceUnavailable", errmsg)
          [] OTHER -> Raise("HipchatError", IntToStr(code) \o ": " \o errmsg)

\* Api._unwrap_response taking every code it does not know for a success.
Api_unwrap_response_lenient(resp) ==
    LET code == resp.status_code
        json == resp.body
        errmsg == Get(Get(json, "error", Dict(EmptyDict)), "message",
                      Str("Unknown error")).v
    IN  CASE code = 400 -> Raise("BadRequest", errmsg)
          [] code = 401 -> Raise("AuthorizationError", errmsg)
          [] code = 404 -> Raise("NotFoundError", errmsg)
          [] code = 403 -> Raise("RateLimitExceeded", errmsg)
          [] code = 503 -> Raise("ServiceUnavailable", errmsg)
          [] OTHER -> Ok(json)

\* Api._unwrap_response
Api_unwrap_response(resp) ==
    LET code == resp.status_code
        json == resp.body
        errmsg == Get(Get(json, "error", Dict(EmptyDict)), "message",
                      Str("Unknown error")).v
    IN  CASE code = 200 -> Ok(json)
          [] code = 400 -> Raise("BadRequest", errmsg)
          [] code = 401 -> Raise("AuthorizationError", errmsg)
          [] code = 404 -> Raise("NotFoundError", errmsg)
          [] code = 403 -> Raise("RateLimitExceeded", errmsg)
          [] code = 503 -> Raise("ServiceUnavailable", errmsg)
          [] OTHER -> Raise("HipchatError", IntToStr(code) \o ": " \o errmsg)

\* The result of _get / _post: the requests issued, each with the kwargs it
\* was built from and the response the service gave, and the outcome.
Call(verb, a, method, kwargs, params, data, resp) ==
    [calls |-> <<[verb |-> verb, method |-> method, kwargs |-> kwargs,
                  url |-> a.base_url.v \o method,
                  params |-> params, data |-> data, resp |-> resp]>>,
     out |-> Api_unwrap_response(resp)]

\* Api._get letting the caller's keywords win over format and auth_token.
Api_get_caller_wins(a, method, kwargs, resp) ==
    Call("GET", a, method, kwargs,
         Update([format |-> Str("json"), auth_token |-> a.auth_token], kwargs),
         EmptyDict, resp)

\* Api._get
Api_get(a, method, kwargs, resp) ==
    Call("GET", a, method, kwargs,
         Update(kwargs, [format |-> Str("json"), auth_token |-> a.auth_token]),
         EmptyDict, resp)

\* Api._post issuing the request a second time when the service is unavailable.
Api_post_retry(a, method, kwargs, resp) ==
    LET c == Call("POST", a, method, kwargs,
                  [format |-> Str("json"), auth_token |-> a.auth_token],
                  IF "from" \in DOMAIN kwargs THEN kwargs
                  ELSE Update(kwargs, [from |-> a.from_name]),
                  resp)
    IN  IF c.out.exc = "ServiceUnavailable"
        THEN [calls |-> c.calls \o c.calls, out |-> c.out]
        ELSE c

\* Api._post
Api_post(a, method, kwargs, resp) ==
    Call("POST", a, method, kwargs,
         [format |-> Str("json"), auth_token |-> a.auth_token],
         IF "from" \in DOMAIN kwargs THEN kwargs
         ELSE Update(kwargs, [from |-> a.from_name]),
         resp)

(***************************************************************************)
(* hipchat/data.py, hipchat/users.py, hipchat/rooms.py, hipchat/messages.py *)
(* the data objects                                                        *)
(***************************************************************************)
RoomAttributes == {"xmpp_jid", "name", "is_archived", "room_id",
                   "owner_user_id", "is_private", "guest_access_url"}

UserAttributes == {"user_id", "name", "mention_name", "email", "title",
                   "photo_url", "status", "status_message", "password"}

MessageAttributes == {"message"}

\* HipchatObject._parse
HipchatObject_parse(cls, attributes, data) ==
    Object(cls, [attr \in attributes |-> Get(data, attr, None)])

\* HipchatObject._parse_ts
parse_ts(data) == IF Truthy(data) THEN DateTime(data.v) ELSE None

\* iso8601.parse_date
parse_date(s) == [t |-> "datetime+tz", v |-> s.v]

\* User._parse
User_parse(data) ==
    LET obj == HipchatObject_parse("User", UserAttributes, data)
    IN  Object("User",
            [is_group_admin |-> BoolOfInt(Get(data, "is_group_admin", Num(0))),
             is_deleted |-> BoolOfInt(Get(data, "is_deleted", Num(0))),
             last_active |-> parse_ts(Get(data, "last_active", None)),
             created |-> parse_ts(Get(data, "created", None))] @@ obj.v)

\* Room._parse leaving the participants out.
Room_parse_no_participants(data) ==
    LET obj == HipchatObject_parse("Room", RoomAttributes, data)
    IN  IF "topic" \notin DOMAIN data.v THEN Raise("KeyError", "topic")
        ELSE Ok(Object("Room",
            [_topic |-> data.v["topic"],
             last_active |-> parse_ts(Get(data, "last_active", None)),
             created |-> parse_ts(Get(data, "created", None)),
             participants |-> List(<<>>)] @@ obj.v))

\* Room._parse
Room_parse(data) ==
    LET obj == HipchatObject_parse("Room", RoomAttributes, data)
    IN  IF "topic" \notin DOMAIN data.v THEN Raise("KeyError", "topic")
        ELSE Ok(Object("Room",
            [_topic |-> data.v["topic"],
             last_active |-> parse_ts(Get(data, "last_active", None)),
             created |-> parse_ts(Get(data, "created", None)),
             participants |->
                 IF "participants" \in DOMAIN data.v
                 THEN List([i \in DOMAIN data.v["participants"].v |->
                               User_parse(data.v["participants"].v[i])])
                 ELSE List(<<>>)] @@ obj.v))

\* Message._parse
Message_parse(data) ==
    LET obj == HipchatObject_parse("Message", MessageAttributes, data)
    IN  IF "date" \notin DOMAIN data.v THEN Raise("KeyError", "date")
        ELSE IF "from" \notin DOMAIN data.v THEN Raise("KeyError", "from")
        ELSE Ok(Object("Message",
            [date |-> parse_date(data.v["date"]),
             from_user |-> User_parse(data.v["from"])] @@ obj.v))

\* [parse(x) for x in items]: the first exception raised ends the loop
ParseAll(parsed) ==
    IF \E i \in DOMAIN parsed : Raised(parsed[i])
    THEN parsed[CHOOSE i \in DOMAIN parsed :
                    /\ Raised(parsed[i])
                    /\ \A j \in DOMAIN parsed : Raised(parsed[j]) => i <= j]
    ELSE Ok(List([i \in DOMAIN parsed |-> parsed[i].ret]))

(***************************************************************************)
(* Helpers for the operations                                              *)
(***************************************************************************)
\* The operation goes on to its outcome rest unless the call raised.
Then(c, rest) ==
    [calls |-> c.calls, out |-> IF Raised(c.out) THEN c.out ELSE rest]

\* An operation that ends before any request is issued.
NoCall(out) == [calls |-> <<>>, out |-> out]

\* A method that ends without having assigned to any attribute of self.
Keeping(c, self) == [calls |-> c.calls, out |-> c.out, self |-> self]

\* '1' if x else '0'
OneOrZero(x) == IF Truthy(x) THEN Str("1") ELSE Str("0")

Pad2(n) == Digit(n \div 10) \o Digit(n % 10)

\* date.strftime('%Y-%m-%d')
Strftime(date) ==
    Str(Pad2(date.v.year \div 100) \o Pad2(date.v.year % 100) \o "-"
        \o Pad2(date.v.month) \o "-" \o Pad2(date.v.day))

\* isinstance(x, datetime.date)
IsDate(x) == x.t \in {"date", "datetime"}

\* The types whose instances have a today() method.
HasToday(x) == x.t \in {"date", "datetime"}

\* a > b on two dates
DateGreater(a, b) ==
    \/ a.v.year > b.v.year
    \/ a.v.year = b.v.year /\ a.v.month > b.v.month
    \/ a.v.year = b.v.year /\ a.v.month = b.v.month /\ a.v.day > b.v.day

\* User._maybe_dict
User_maybe_dict(kwargs) ==
    [k \in {x \in DOMAIN kwargs : ~IsNone(kwargs[x])} |-> kwargs[k]]

(***************************************************************************)
(* hipchat/rooms.py: the operations                                        *)
(***************************************************************************)
\* Room.list
Room_list(a, resp) ==
    LET Parse(data) ==
            IF "rooms" \notin DOMAIN data.v THEN Raise("KeyError", "rooms")
            ELSE ParseAll([i \in DOMAIN data.v["rooms"].v |->
                              Room_parse(data.v["rooms"].v[i])])
    IN  LET c == Api_get(a, "rooms/list", EmptyDict, resp)
        IN  Then(c, Parse(c.out.ret))

\* Room.show
Room_show(a, room_id, resp) ==
    LET Parse(data) ==
            IF "room" \notin DOMAIN data.v THEN Raise("KeyError", "room")
            ELSE Room_parse(data.v["room"])
    IN  LET c == Api_get(a, "rooms/show", [room_id |-> PyStr(room_id)], resp)
        IN  Then(c, Parse(c.out.ret))

\* Room.topic (getter)
Room_topic(self) == self.v["_topic"]

\* Room.topic (setter) storing the value before the request is answered.
Room_topic_setter_store_first(a, self, value, resp) ==
    LET c == Api_post(a, "rooms/topic",
                      [room_id |-> self.v["room_id"], topic |-> value], resp)
    IN  [calls |-> c.calls,
         out |-> IF Raised(c.out) THEN c.out ELSE Ok(None),
         self |-> Object("Room", [self.v EXCEPT !["_topic"] = value])]

\* Room.topic (setter): the call and the object after it
Room_topic_setter(a, self, value, resp) ==
    LET c == Api_post(a, "rooms/topic",
                      [room_id |-> self.v["room_id"], topic |-> value], resp)
    IN  [calls |-> c.calls,
         out |-> IF Raised(c.out) THEN c.out ELSE Ok(None),
         self |-> IF Raised(c.out) THEN self
                  ELSE Object("Room", [self.v EXCEPT !["_topic"] = value])]

\* The default of Room.message's frm parameter.
Room_message_frm == Str("API")

\* Room.message
Room_message(a, self, message, format, notify, color, frm, resp) ==
    LET done == Ok(None)
    IN  Keeping(Then(Api_post(a, "rooms/message",
                              [room_id |-> self.v["room_id"],
                               message |-> message,
                               message_format |-> format,
                               notify |-> notify,
                               color |-> color,
                               from |-> frm], resp), done), self)

\* Room.history
Room_history(a, self, date, timezone, today, resp) ==
    LET Parse(data) ==
            IF "messages" \notin DOMAIN data.v THEN Raise("KeyError", "messages")
            ELSE ParseAll([i \in DOMAIN data.v["messages"].v |->
                              Message_parse(data.v["messages"].v[i])])
        Fetch(d) ==
            LET c == Api_get(a, "rooms/history",
                             [room_id |-> self.v["room_id"], date |-> d,
                              timezone |-> timezone], resp)
            IN  Then(c, Parse(c.out.ret))
        History ==
            IF IsDate(date)
            THEN LET formatted == Strftime(date)
                 IN  IF ~HasToday(formatted)
                     THEN NoCall(Raise("AttributeError",
                                       "'str' object has no attribute 'today'"))
                     ELSE IF DateGreater(formatted, today)
                     THEN NoCall(Raise("ValueError", ""))
                     ELSE Fetch(formatted)
            ELSE Fetch(date)
    IN  Keeping(History, self)

\* Room.create
Room_create(a, name, owner_user_id, topic, private, guest_access, resp) ==
    LET Parse(data) ==
            IF "room" \notin DOMAIN data.v THEN Raise("KeyError", "room")
            ELSE Room_parse(data.v["room"])
    IN  LET c == Api_post(a, "rooms/create",
                      [name |-> name, owner_user_id |-> owner_user_id,
                       topic |-> topic,
                       private |-> IF Truthy(private) THEN Str("private")
                                   ELSE Str("public"),
                       guest_access |-> OneOrZero(guest_access)], resp)
        IN  Then(c, Parse(c.out.ret))

\* Room.delete
Room_delete(a, self, resp) ==
    LET done == Ok(None)
    IN  Keeping(Then(Api_post(a, "rooms/delete",
                              [room_id |-> self.v["room_id"]], resp), done), self)

(***************************************************************************)
(* hipchat/users.py: the operations                                        *)
(***************************************************************************)
\* User.list
User_list(a, include_deleted, resp) ==
    LET Parse(data) ==
            IF "users" \notin DOMAIN data.v THEN Raise("KeyError", "users")
            ELSE Ok(List([i \in DOMAIN data.v["users"].v |->
                             User_parse(data.v["users"].v[i])]))
    IN  LET c == Api_get(a, "users/list",
                     [include_deleted |-> OneOrZero(include_deleted)], resp)
        IN  Then(c, Parse(c.out.ret))

\* User.show
User_show(a, user_id, resp) ==
    LET Parse(data) ==
            IF "user" \notin DOMAIN data.v THEN Raise("KeyError", "user")
            ELSE Ok(User_parse(data.v["user"]))
    IN  LET c == Api_get(a, "users/show", [user_id |-> PyStr(user_id)], resp)
        IN  Then(c, Parse(c.out.ret))

\* User.create
User_create(a, email, name, mention_name, title, is_group_admin, password, timezone, resp) ==
    LET params == User_maybe_dict(
            [email |-> email, name |-> name, timezone |-> timezone,
             is_group_admin |-> OneOrZero(is_group_admin),
             mention_name |-> mention_name, title |-> title,
             password |-> password])
        Parse(data) ==
            IF "user" \notin DOMAIN data.v THEN Raise("KeyError", "user")
            ELSE Ok(User_parse(data.v["user"]))
    IN  LET c == Api_post(a, "users/create", params, resp)
        IN  Then(c, Parse(c.out.ret))

\* User.delete marking the local object as deleted once the service agrees.
User_delete_marking(a, self, resp) ==
    LET done == Ok(None)
        c == Then(Api_post(a, "users/delete", [user_id |-> self.v["user_id"]],
                           resp), done)
    IN  [calls |-> c.calls, out |-> c.out,
         self |-> IF Raised(c.out) THEN self
                  ELSE Object("User",
                              [self.v EXCEPT !["is_deleted"] = Bool(TRUE)])]

\* User.delete
User_delete(a, self, resp) ==
    LET done == Ok(None)
    IN  Keeping(Then(Api_post(a, "users/delete",
                              [user_id |-> self.v["user_id"]], resp), done), self)

\* User.undelete testing its arguments for truth, not against None.
User_undelete_truthy(a, user_id, user_email, resp) ==
    LET done == Ok(None)
    IN  IF Truthy(user_id) /\ Truthy(user_email)
        THEN NoCall(Raise("ValueError",
            "only one of user_id or user_email should be provided, not both"))
        ELSE IF ~Truthy(user_id) /\ ~Truthy(user_email)
        THEN NoCall(Raise("ValueError",
            "either user_id or user_email should be provided"))
        ELSE Then(Api_post(a, "users/undelete",
                           [user_id |-> IF Truthy(user_id) THEN user_id
                                        ELSE user_email], resp), done)

\* User.undelete
User_undelete(a, user_id, user_email, resp) ==
    LET done == Ok(None)
    IN  IF ~IsNone(user_id) /\ ~IsNone(user_email)
        THEN NoCall(Raise("ValueError",
            "only one of user_id or user_email should be provided, not both"))
        ELSE IF IsNone(user_id) /\ IsNone(user_email)
        THEN NoCall(Raise("ValueError",
            "either user_id or user_email should be provided"))
        ELSE Then(Api_post(a, "users/undelete",
                           [user_id |-> IF ~IsNone(user_id) THEN user_id
                                        ELSE user_email], resp), done)

\* User.update
User_update(a, self, email, name, mention_name, title, is_group_admin, password, timezone, resp) ==
    LET params == User_maybe_dict(
            [email |-> email, name |-> name, mention_name |-> None,
             is_group_admin |-> IF ~IsNone(is_group_admin)
                                THEN OneOrZero(is_group_admin) ELSE None,
             password |-> password, timezone |-> timezone])
        done == Ok(None)
    IN  Keeping(Then(Api_post(a, "users/update",
                              [user_id |-> self.v["user_id"]] @@ params, resp),
                     done), self)

(***************************************************************************)
(* The remote service: payloads and responses                              *)
(***************************************************************************)
Ids == 1 .. MaxList

\* The {user_id, name} entry of a room's participants and of a message's from.
PartialUser(i) ==
    Dict([user_id |-> Num(i), name |-> Str("user" \o IntToStr(i))])

\* A user as users/show, users/list and users/create give it: odd users with
\* every field, even users deleted and with the optional fields left out.
UserPayload(i) ==
    IF i % 2 = 1
    THEN Dict([user_id |-> Num(i), name |-> Str("user" \o IntToStr(i)),
               mention_name |-> Str("u" \o IntToStr(i)),
               email |-> Str("user" \o IntToStr(i) \o "@example.com"),
               title |-> Str("Engineer"), photo_url |-> Str("http://p/" \o IntToStr(i)),
               status |-> Str("available"), status_message |-> Str(""),
               is_group_admin |-> Num(1), is_deleted |-> Num(0),
               last_active |-> Num(1360000000 + i), created |-> Num(1350000000 + i)])
    ELSE Dict([user_id |-> Num(i), name |-> Str("user" \o IntToStr(i)),
               email |-> Str("user" \o IntToStr(i) \o "@example.com"),
               is_deleted |-> Num(1), last_active |-> Num(0)])

\* A room as rooms/show and rooms/create give it (odd rooms, with the
\* participants) and as rooms/list gives it (even rooms, without them).
RoomPayload(i) ==
    IF i % 2 = 1
    THEN Dict([room_id |-> Num(i), name |-> Str("room" \o IntToStr(i)),
               topic |-> Str("topic of room" \o IntToStr(i)),
               xmpp_jid |-> Str(IntToStr(i) \o "@conf.hipchat.com"),
               is_archived |-> Bool(FALSE), is_private |-> Bool(TRUE),
               owner_user_id |-> Num(1), guest_access_url |-> None,
               last_active |-> Num(1360000000 + i), created |-> Num(1350000000 + i),
               participants |-> List([j \in Ids |-> PartialUser(MaxList + 1 - j)])])
    ELSE Dict([room_id |-> Num(i), name |-> Str("room" \o IntToStr(i)),
               topic |-> Str(""),
               xmpp_jid |-> Str(IntToStr(i) \o "@conf.hipchat.com"),
               is_archived |-> Bool(TRUE), is_private |-> Bool(FALSE),
               owner_user_id |-> Num(2), last_active |-> Num(0)])

\* A message as rooms/history gives it.
MessagePayload(i) ==
    Dict([date |-> Str("2013-01-0" \o IntToStr(i) \o "T10:00:00+0000"),
          from |-> PartialUser(i),
          message |-> Str("message " \o IntToStr(i))])

\* A list response holds the first n of the service's entries, n in 0..max.
RoomListBodies(max) ==
    {Dict([rooms |-> List([i \in 1 .. n |-> RoomPayload(i)])]) : n \in 0 .. max}

UserListBodies(max) ==
    {Dict([users |-> List([i \in 1 .. n |-> UserPayload(i)])]) : n \in 0 .. max}

MessageListBodies(max) ==
    {Dict([messages |-> List([i \in 1 .. n |-> MessagePayload(i)])]) : n \in 0 .. max}

\* The body of an error response, with and without error.message.
ErrorWithMessage ==
    Dict([error |-> Dict([code |-> Num(0), type |-> Str("Error"),
                          message |-> Str("Something went wrong")])])

ErrorNoMessage ==
    Dict([error |-> Dict([code |-> Num(0), type |-> Str("Error")])])

\* The body of a request that returns nothing of interest.
StatusBody(key) == Dict(key :> Bool(TRUE))

Statuses == {200, 400, 401, 403, 404, 503, 500}

Response(code, body) == [status_code |-> code, body |-> body]

\* What the service answers to an operation whose successful body is in
\* success: success, or an error status with an error body; and an error body
\* under status 200.
Responses(success) ==
    {Response(200, b) : b \in success \cup {ErrorWithMessage}}
    \cup {Response(code, ErrorWithMessage) : code \in Statuses \ {200}}

\* Stands for the response of an operation that issues no request.
Unanswered == Response(200, StatusBody("unanswered"))

\* The responses an operation may get: it reads none when it issues no request.
Answers(c, success) ==
    IF Len(c.calls) = 0 THEN {Unanswered} ELSE Responses(success)

\* What the service may answer to a direct _get / _post: any status with any
\* body.
AnyResponses ==
    {Response(code, b) : code \in Statuses,
                         b \in {ErrorWithMessage, ErrorNoMessage,
                                StatusBody("deleted")}}

(***************************************************************************)
(* The caller: the arguments it passes                                     *)
(***************************************************************************)
\* The arguments of Api(auth_token, from_name, base_url): the defaults, and
\* every argument given.
ApiArgs ==
    {<<Str("tokA"), None, None>>,
     <<Str("tokB"), Str("Bot"), Str("http://localhost/v1/")>>}

\* The clock read by date.today().
Today == Date(2013, 6, 15)

HistoryDates == {Str("recent"), Date(2013, 1, 5), Today, Date(2014, 2, 1)}
Topics == {Str("topic A"), Str("topic B")}
Senders == {Str("Alice")}
UndeleteIds == {None, Num(0), Num(1)}
UndeleteEmails == {None, Str("user1@example.com")}

\* The keyword arguments of a direct _get / _post: entity fields alone, and
\* entity fields with the caller's own format and auth_token.
DirectKwargs ==
    {[room_id |-> Str("1")],
     [room_id |-> Str("1"), format |-> Str("xml"), auth_token |-> Str("other")]}

(***************************************************************************)
(* State                                                                   *)
(*   api         the Api object                                            *)
(*   room, user  the Room and the User the caller holds (None: none yet)   *)
(*   parsedFrom  the payload the held room was parsed from                 *)
(*   assigned    the value of the last topic assignment on the held room   *)
(*               that succeeded (None: none yet)                           *)
(*   last        the last operation: its name, arguments, the requests it  *)
(*               issued and its outcome                                    *)
(***************************************************************************)
Invocation(op, args, c) ==
    [op |-> op, args |-> args, calls |-> c.calls, out |-> c.out]

Init ==
    /\ api \in {Api_init(args[1], args[2], args[3]) : args \in ApiArgs}
    /\ room = None
    /\ user = None
    /\ parsedFrom = None
    /\ assigned = None
    /\ last = Invocation("Api.__init__", EmptyDict, NoCall(Ok(None)))

\* The caller keeps the room it held or takes one of the rooms returned.
HoldRoom(rooms, payloads) ==
    \/ UNCHANGED <<room, parsedFrom, assigned>>
    \/ \E i \in DOMAIN rooms :
          /\ room' = rooms[i]
          /\ parsedFrom' = payloads[i]
          /\ assigned' = None

\* The caller keeps the user it held or takes one of the users returned.
HoldUser(users) ==
    \/ user' = user
    \/ \E i \in DOMAIN users : user' = users[i]

RoomList ==
    /\ UNCHANGED <<api, user>>
    /\ \E resp \in Responses(RoomListBodies(MaxList)) :
           LET c == Room_list(api, resp)
           IN  /\ last' = Invocation("Room.list", EmptyDict, c)
               /\ IF Raised(c.out)
                  THEN UNCHANGED <<room, parsedFrom, assigned>>
                  ELSE HoldRoom(c.out.ret.v, resp.body.v["rooms"].v)

RoomShow ==
    /\ UNCHANGED <<api, user>>
    /\ \E id \in Ids : \E resp \in Responses({Dict([room |-> RoomPayload(id)])}) :
           LET c == Room_show(api, Num(id), resp)
           IN  /\ last' = Invocation("Room.show", [room_id |-> Num(id)], c)
               /\ IF Raised(c.out)
                  THEN UNCHANGED <<room, parsedFrom, assigned>>
                  ELSE HoldRoom(<<c.out.ret>>, <<resp.body.v["room"]>>)

RoomCreate ==
    /\ UNCHANGED <<api, user>>
    /\ \E resp \in Responses({Dict([room |-> RoomPayload(1)])}) :
           LET c == Room_create(api, Str("room1"), Num(1), Str(""), Bool(TRUE),
                                Bool(FALSE), resp)
           IN  /\ last' = Invocation("Room.create",
                                     [name |-> Str("room1"), owner_user_id |-> Num(1)], c)
               /\ IF Raised(c.out)
                  THEN UNCHANGED <<room, parsedFrom, assigned>>
                  ELSE HoldRoom(<<c.out.ret>>, <<resp.body.v["room"]>>)

RoomTopicGet ==
    /\ ~IsNone(room)
    /\ last' = Invocation("Room.topic.get", EmptyDict, NoCall(Ok(Room_topic(room))))
    /\ UNCHANGED <<api, room, user, parsedFrom, assigned>>

RoomTopicSet ==
    /\ ~IsNone(room)
    /\ \E value \in Topics : \E resp \in Responses({StatusBody("status")}) :
          LET c == Room_topic_setter(api, room, value, resp)
          IN  /\ last' = Invocation("Room.topic.set", [value |-> value], c)
              /\ room' = c.self
              /\ assigned' = IF Raised(c.out) THEN assigned ELSE value
              /\ UNCHANGED <<api, user, parsedFrom>>

RoomMessage ==
    /\ ~IsNone(room)
    /\ \E frm \in {None} \cup Senders : \E resp \in Responses({StatusBody("status")}) :
          LET c == Room_message(api, room, Str("hello"), Str("text"), Bool(FALSE),
                                Str("yellow"),
                                IF IsNone(frm) THEN Room_message_frm ELSE frm, resp)
          IN  /\ last' = Invocation("Room.message",
                                    [message |-> Str("hello"), frm |-> frm], c)
              /\ room' = c.self
              /\ UNCHANGED <<api, user, parsedFrom, assigned>>

RoomHistory ==
    /\ ~IsNone(room)
    /\ \E date \in HistoryDates :
       \E resp \in Answers(Room_history(api, room, date, Str("UTC"), Today, Unanswered),
                           MessageListBodies(MaxList)) :
          LET c == Room_history(api, room, date, Str("UTC"), Today, resp)
          IN  /\ last' = Invocation("Room.history",
                                    [date |-> date, timezone |-> Str("UTC")], c)
              /\ room' = c.self
              /\ UNCHANGED <<api, user, parsedFrom, assigned>>

RoomDelete ==
    /\ ~IsNone(room)
    /\ \E resp \in Responses({StatusBody("deleted")}) :
          LET c == Room_delete(api, room, resp)
          IN  /\ last' = Invocation("Room.delete", EmptyDict, c)
              /\ room' = c.self
              /\ UNCHANGED <<api, user, parsedFrom, assigned>>

UserList ==
    /\ UNCHANGED <<api, room, parsedFrom, assigned>>
    /\ \E include_deleted \in BOOLEAN :
       \E resp \in Responses(UserListBodies(MaxList)) :
           LET c == User_list(api, Bool(include_deleted), resp)
           IN  /\ last' = Invocation("User.list",
                                     [include_deleted |-> Bool(include_deleted)], c)
               /\ IF Raised(c.out) THEN user' = user ELSE HoldUser(c.out.ret.v)

UserShow ==
    /\ UNCHANGED <<api, room, parsedFrom, assigned>>
    /\ \E id \in Ids : \E resp \in Responses({Dict([user |-> UserPayload(id)])}) :
           LET c == User_show(api, Num(id), resp)
           IN  /\ last' = Invocation("User.show", [user_id |-> Num(id)], c)
               /\ IF Raised(c.out) THEN user' = user ELSE HoldUser(<<c.out.ret>>)

UserCreate ==
    /\ UNCHANGED <<api, room, parsedFrom, assigned>>
    /\ \E resp \in Responses({Dict([user |-> UserPayload(1)])}) :
           LET c == User_create(api, Str("user1@example.com"), Str("user1"), None,
                                Str("Engineer"), Bool(TRUE), None, Str("UTC"), resp)
           IN  /\ last' = Invocation("User.create",
                                     [email |-> Str("user1@example.com"),
                                      name |-> Str("user1")], c)
               /\ IF Raised(c.out) THEN user' = user ELSE HoldUser(<<c.out.ret>>)

UserDelete ==
    /\ ~IsNone(user)
    /\ \E resp \in Responses({StatusBody("deleted")}) :
          LET c == User_delete(api, user, resp)
          IN  /\ last' = Invocation("User.delete", EmptyDict, c)
              /\ user' = c.self
              /\ UNCHANGED <<api, room, parsedFrom, assigned>>

UserUndelete ==
    /\ UNCHANGED <<api, room, user, parsedFrom, assigned>>
    /\ \E user_id \in UndeleteIds : \E user_email \in UndeleteEmails :
       \E resp \in Answers(User_undelete(api, user_id, user_email, Unanswered),
                           {StatusBody("undeleted")}) :
           LET c == User_undelete(api, user_id, user_email, resp)
           IN  /\ last' = Invocation("User.undelete",
                                     [user_id |-> user_id, user_email |-> user_email], c)

UserUpdate ==
    /\ ~IsNone(user)
    /\ \E is_group_admin \in {None, Bool(FALSE)} :
       \E resp \in Responses({StatusBody("status")}) :
          LET c == User_update(api, user, None, Str("New Name"), Str("nn"),
                               Str("Boss"), is_group_admin, None, None, resp)
          IN  /\ last' = Invocation("User.update",
                                    [name |-> Str("New Name"),
                                     is_group_admin |-> is_group_admin], c)
              /\ user' = c.self
              /\ UNCHANGED <<api, room, parsedFrom, assigned>>

ApiGet ==
    /\ UNCHANGED <<api, room, user, parsedFrom, assigned>>
    /\ \E kwargs \in DirectKwargs : \E resp \in AnyResponses :
           /\ last' = Invocation("Api._get", kwargs,
                                 Api_get(api, "rooms/show", kwargs, resp))

ApiPost ==
    /\ UNCHANGED <<api, room, user, parsedFrom, assigned>>
    /\ \E kwargs \in DirectKwargs : \E resp \in AnyResponses :
           /\ last' = Invocation("Api._post", kwargs,
                                 Api_post(api, "rooms/delete", kwargs, resp))

Next ==
    \/ RoomList \/ RoomShow \/ RoomCreate \/ RoomTopicGet \/ RoomTopicSet
    \/ RoomMessage \/ RoomHistory \/ RoomDelete
    \/ UserList \/ UserShow \/ UserCreate \/ UserDelete \/ UserUndelete
    \/ UserUpdate \/ ApiGet \/ ApiPost

Spec == Init /\ [][Next]_vars

(***************************************************************************)
(* Vocabulary of the properties                                            *)
(***************************************************************************)
\* The documented exception of a status code.
DocumentedException(code) ==
    CASE code = 400 -> "BadRequest"
      [] code = 401 -> "AuthorizationError"
      [] code = 403 -> "RateLimitExceeded"
      [] code = 404 -> "NotFoundError"
      [] code = 503 -> "ServiceUnavailable"
      [] OTHER -> "HipchatError"

\* HipchatError and its subclasses.
HipchatErrors == {"HipchatError", "BadRequest", "AuthorizationError",
                  "RateLimitExceeded", "NotFoundError", "ServiceUnavailable"}

HasErrorMessage(body) ==
    /\ "error" \in DOMAIN body.v
    /\ "message" \in DOMAIN body.v["error"].v

DirectOps == {"Api._get", "Api._post"}

PerEntityOps == {"Room.list", "Room.show", "Room.create", "Room.delete",
                 "Room.message", "Room.history", "Room.topic.set",
                 "User.list", "User.show", "User.create", "User.delete",
                 "User.undelete", "User.update"}

\* The last operation issued exactly one request, and this is its record.
OneCall == Len(last.calls) = 1
TheCall == last.calls[1]

(***************************************************************************)
(* C1: a response with status 400, 401, 403, 404 or 503 raises exactly the *)
(* matching exception (BadRequest, AuthorizationError, RateLimitExceeded,  *)
(* NotFoundError, ServiceUnavailable), and the exception's message is the  *)
(* body's error.message.                                                   *)
(***************************************************************************)
C1_SpecificStatusRaisesMatching ==
    \A i \in DOMAIN last.calls :
        LET resp == last.calls[i].resp
        IN  resp.status_code \in SpecificCodes =>
              /\ last.out.exc = DocumentedException(resp.status_code)
              /\ last.out.exc # "HipchatError"
              /\ HasErrorMessage(resp.body) =>
                    last.out.msg = resp.body.v["error"].v["message"].v

C1_Witness ==
    /\ OneCall
    /\ TheCall.resp.status_code = 403
    /\ HasErrorMessage(TheCall.resp.body)
    /\ last.out.exc = "RateLimitExceeded"
    /\ last.out.msg = "Something went wrong"

(***************************************************************************)
(* C2: a response with status 200 raises no API exception, and _get and    *)
(* _post return its parsed body as it is, also when the body has an        *)
(* 'error' key.                                                            *)
(***************************************************************************)
C2_Status200ReturnsBody ==
    (OneCall /\ TheCall.resp.status_code = 200) =>
        /\ last.out.exc \notin HipchatErrors
        /\ last.op \in DirectOps =>
              /\ last.out.exc = "none"
              /\ last.out.ret = TheCall.resp.body

C2_Witness ==
    /\ OneCall
    /\ last.op = "Api._post"
    /\ TheCall.resp.status_code = 200
    /\ "error" \in DOMAIN TheCall.resp.body.v
    /\ last.out = Ok(ErrorWithMessage)

(***************************************************************************)
(* C3: a response with any other status than 200, 400, 401, 403, 404, 503  *)
(* raises the generic HipchatError, never a subclass and never a normal    *)
(* return; the mapping is total: _get and _post either return the body     *)
(* (status 200 only) or raise a HipchatError.                              *)
(***************************************************************************)
C3_OtherStatusRaisesGeneric ==
    OneCall =>
        LET code == TheCall.resp.status_code
        IN  /\ code \notin SpecificCodes \cup {200} => last.out.exc = "HipchatError"
            /\ last.op \in DirectOps =>
                  \/ code = 200 /\ last.out.exc = "none"
                  \/ code # 200 /\ last.out.exc \in HipchatErrors

C3_Witness ==
    /\ OneCall
    /\ TheCall.resp.status_code = 500
    /\ last.out.exc = "HipchatError"
    /\ last.out.msg = "500: Something went wrong"

LastKnownTopic == IF IsNone(assigned) THEN parsedFrom.v["topic"] ELSE assigned

(***************************************************************************)
(* C4: reading Room.topic issues no request and returns the value of the   *)
(* last topic assignment that succeeded, or the topic of the payload the   *)
(* room was parsed from when none has; a failed assignment leaves the      *)
(* topic as it was.                                                        *)
(***************************************************************************)
C4_TopicIsLastKnown ==
    /\ ~IsNone(room) => Room_topic(room) = LastKnownTopic
    /\ last.op = "Room.topic.get" =>
          /\ Len(last.calls) = 0
          /\ last.out = Ok(LastKnownTopic)

\* An assignment has failed after another one succeeded.
C4_Witness ==
    /\ last.op = "Room.topic.set"
    /\ Raised(last.out)
    /\ ~IsNone(assigned)
    /\ last.args.value # assigned
    /\ Room_topic(room) = assigned

\* The invocations that raise before their request is built.
RaisesBeforeRequest ==
    \/ /\ last.op = "User.undelete"
       /\ IsNone(last.args.user_id) = IsNone(last.args.user_email)
    \/ /\ last.op = "Room.history"
       /\ IsDate(last.args.date)

(***************************************************************************)
(* C5 as stated: every invocation of a per-entity operation issues exactly *)
(* one HTTP request, for every argument value, whether it succeeds or      *)
(* fails: never none, never a second one; a failure's exception reaches    *)
(* the caller.                                                             *)
(***************************************************************************)
C5_ExactlyOneRequest ==
    last.op \in PerEntityOps =>
        /\ Len(last.calls) = 1
        /\ TheCall.resp.status_code # 200 => last.out.exc \in HipchatErrors

(***************************************************************************)
(* C5 as amended: every invocation of a per-entity operation issues at     *)
(* most one HTTP request, never a second one after a failure, whose        *)
(* exception reaches the caller; it issues exactly one unless it raises    *)
(* before the request: User.undelete with both or neither of user_id and   *)
(* user_email, Room.history with a datetime.date.                          *)
(***************************************************************************)
C5_AtMostOneRequest ==
    last.op \in PerEntityOps =>
        /\ Len(last.calls) <= 1
        /\ Len(last.calls) = 0 <=> RaisesBeforeRequest
        /\ Len(last.calls) = 0 => last.out.exc \in {"ValueError", "AttributeError"}
        /\ (OneCall /\ TheCall.resp.status_code # 200) =>
              /\ last.out.exc \in HipchatErrors
              /\ last.out.exc = DocumentedException(TheCall.resp.status_code)

C5_Witness ==
    /\ last.op = "User.undelete"
    /\ ~IsNone(last.args.user_id)
    /\ ~IsNone(last.args.user_email)
    /\ Len(last.calls) = 0
    /\ last.out.exc = "ValueError"

(***************************************************************************)
(* C6: every request carries the query parameters format=json and          *)
(* auth_token = the Api's token, even when the caller passes its own       *)
(* format or auth_token; on POST the caller's fields travel in the form    *)
(* body only, on GET in the query string.                                  *)
(***************************************************************************)
C6_RequestParameters ==
    \A i \in DOMAIN last.calls :
        LET call == last.calls[i]
        IN  /\ call.params["format"] = Str("json")
            /\ call.params["auth_token"] = api.auth_token
            /\ call.verb = "POST" =>
                  /\ DOMAIN call.params = {"format", "auth_token"}
                  /\ \A k \in DOMAIN call.kwargs :
                        k \in DOMAIN call.data /\ call.data[k] = call.kwargs[k]
            /\ call.verb = "GET" =>
                  /\ DOMAIN call.data = {}
                  /\ \A k \in DOMAIN call.kwargs \ {"format", "auth_token"} :
                        k \in DOMAIN call.params /\ call.params[k] = call.kwargs[k]

C6_Witness ==
    /\ OneCall
    /\ last.op = "Api._get"
    /\ "auth_token" \in DOMAIN TheCall.kwargs
    /\ TheCall.kwargs["auth_token"] # api.auth_token
    /\ TheCall.kwargs["format"] = Str("xml")
    /\ TheCall.params["auth_token"] = api.auth_token
    /\ TheCall.params["room_id"] = Str("1")

AttributesMatch(obj, attributes, payload) ==
    \A attr \in attributes :
        IF attr \in DOMAIN payload.v THEN obj.v[attr] = payload.v[attr]
        ELSE IsNone(obj.v[attr])

RoomMatches(obj, payload) ==
    /\ obj.t = "Room"
    /\ AttributesMatch(obj, RoomAttributes, payload)
    /\ Room_topic(obj) = payload.v["topic"]
    /\ LET given == IF "participants" \in DOMAIN payload.v
                    THEN payload.v["participants"].v ELSE <<>>
       IN  /\ Len(obj.v["participants"].v) = Len(given)
           /\ \A j \in DOMAIN given :
                 /\ obj.v["participants"].v[j].t = "User"
                 /\ AttributesMatch(obj.v["participants"].v[j],
                                    {"user_id", "name"}, given[j])

UserMatches(obj, payload) ==
    /\ obj.t = "User"
    /\ AttributesMatch(obj, UserAttributes, payload)

MessageMatches(obj, payload) ==
    /\ obj.t = "Message"
    /\ AttributesMatch(obj, MessageAttributes, payload)
    /\ obj.v["from_user"].t = "User"
    /\ AttributesMatch(obj.v["from_user"], {"user_id", "name"}, payload.v["from"])

RoomsMatch(objs, payloads) ==
    /\ Len(objs) = Len(payloads)
    /\ \A j \in DOMAIN payloads : RoomMatches(objs[j], payloads[j])

UsersMatch(objs, payloads) ==
    /\ Len(objs) = Len(payloads)
    /\ \A j \in DOMAIN payloads : UserMatches(objs[j], payloads[j])

MessagesMatch(objs, payloads) ==
    /\ Len(objs) = Len(payloads)
    /\ \A j \in DOMAIN payloads : MessageMatches(objs[j], payloads[j])

(***************************************************************************)
(* C7: an object parsed from a well-formed payload has the payload's       *)
(* fields: every attribute of the class's attributes tuple, the room's     *)
(* topic, one participant per payload participant in the same order, and   *)
(* the user_id and name of a message's from entry.                         *)
(***************************************************************************)
C7_ParsedEqualsPayload ==
    (OneCall /\ ~Raised(last.out)) =>
        LET body == TheCall.resp.body.v
            ret == last.out.ret
        IN  /\ last.op \in {"Room.show", "Room.create"} =>
                  RoomMatches(ret, body["room"])
            /\ last.op = "Room.list" =>
                  RoomsMatch(ret.v, body["rooms"].v)
            /\ last.op \in {"User.show", "User.create"} =>
                  UserMatches(ret, body["user"])
            /\ last.op = "User.list" =>
                  UsersMatch(ret.v, body["users"].v)
            /\ last.op = "Room.history" =>
                  MessagesMatch(ret.v, body["messages"].v)

\* A room with several participants has been parsed.
C7_Witness ==
    /\ OneCall
    /\ last.op = "Room.show"
    /\ ~Raised(last.out)
    /\ Len(last.out.ret.v["participants"].v) > 1
    /\ last.out.ret.v["participants"].v[1].v["user_id"] #
           last.out.ret.v["participants"].v[2].v["user_id"]
    /\ room = last.out.ret

(***************************************************************************)
(* C8: the from name configured on the Api is the from field sent both     *)
(* when setting a room topic and when sending a message with no explicit   *)
(* sender.                                                                 *)
(***************************************************************************)
C8_FromNameIsSent ==
    (/\ OneCall
     /\ \/ last.op = "Room.topic.set"
        \/ last.op = "Room.message" /\ IsNone(last.args.frm)) =>
        TheCall.data["from"] = api.from_name

(***************************************************************************)
(* C9: Room.history with a datetime.date that is not in the future issues  *)
(* a GET to rooms/history with the date as YYYY-MM-DD and the timezone,    *)
(* and returns one Message per entry of the response's messages; with      *)
(* 'recent' it passes 'recent' on; with a date after today it raises       *)
(* ValueError and issues no request.                                       *)
(***************************************************************************)
C9_HistoryByDate ==
    last.op = "Room.history" =>
        LET date == last.args.date
            Fetched(d) ==
                /\ OneCall
                /\ TheCall.verb = "GET"
                /\ TheCall.method = "rooms/history"
                /\ TheCall.params["date"] = d
                /\ TheCall.params["timezone"] = last.args.timezone
                /\ (/\ TheCall.resp.status_code = 200
                    /\ "messages" \in DOMAIN TheCall.resp.body.v) =>
                      /\ ~Raised(last.out)
                      /\ MessagesMatch(last.out.ret.v,
                                       TheCall.resp.body.v["messages"].v)
        IN  /\ (IsDate(date) /\ ~DateGreater(date, Today)) => Fetched(Strftime(date))
            /\ date.t = "str" => Fetched(date)
            /\ (IsDate(date) /\ DateGreater(date, Today)) =>
                  /\ Len(last.calls) = 0
                  /\ last.out.exc = "ValueError"

(***************************************************************************)
(* C10: User.undelete raises ValueError and issues no request when both or *)
(* neither of user_id and user_email are given; given exactly one (a       *)
(* user_id of 0 counts), it issues one POST to users/undelete that names   *)
(* the user by that value.                                                 *)
(***************************************************************************)
C10_UndeleteExactlyOne ==
    last.op = "User.undelete" =>
        LET user_id == last.args.user_id
            user_email == last.args.user_email
        IN  IF IsNone(user_id) = IsNone(user_email)
            THEN /\ Len(last.calls) = 0
                 /\ last.out.exc = "ValueError"
            ELSE /\ OneCall
                 /\ TheCall.verb = "POST"
                 /\ TheCall.method = "users/undelete"
                 /\ TheCall.data["user_id"] =
                        IF IsNone(user_id) THEN user_email ELSE user_id
                 /\ last.out.exc \notin {"ValueError"}

C10_Witness ==
    /\ last.op = "User.undelete"
    /\ last.args.user_id = Num(0)
    /\ IsNone(last.args.user_email)
    /\ OneCall
    /\ TheCall.data["user_id"] = Num(0)
    /\ ~Raised(last.out)

\* The operations that, per their code, assign to no attribute of an object.
KeepingOps == {"Room.delete", "Room.message", "Room.history",
               "User.delete", "User.update", "User.undelete"}

\* Objects a and b differ at most in the attribute attr.
SameExcept(a, b, attr) ==
    /\ a.t = b.t
    /\ DOMAIN a.v = DOMAIN b.v
    /\ \A k \in DOMAIN a.v \ {attr} : a.v[k] = b.v[k]

(***************************************************************************)
(* C11: Room.delete, Room.message, Room.history, User.delete, User.update  *)
(* and User.undelete leave every attribute of the room and the user the    *)
(* caller holds unchanged, whether the request succeeds or fails; a Room   *)
(* topic assignment leaves the user unchanged and changes no attribute of  *)
(* the room but the topic.  A deleted room or user stays as it was in the  *)
(* caller's hands, participants included.                                  *)
(***************************************************************************)
C11_HeldObjectsKept ==
    [][/\ last'.op \in KeepingOps => room' = room /\ user' = user
       /\ last'.op = "Room.topic.set" =>
              /\ user' = user
              /\ SameExcept(room, room', "_topic")]_vars

C11_Witness ==
    /\ last.op = "User.delete"
    /\ OneCall
    /\ ~Raised(last.out)
    /\ ~IsNone(user)
    /\ user.v["user_id"] = TheCall.data["user_id"]
    /\ user.v["is_deleted"] = Bool(FALSE)
    /\ ~IsNone(room)
    /\ Len(room.v["participants"].v) > 0

====
